---------------------------- MODULE Spec2Model ----------------------------
(***************************************************************************)
(* Model of the retrieval subsystem of ragnarok: the embedding service     *)
(* (frontend/src/utils/embeddingService.js) and the in-memory VectorStore  *)
(* (frontend/src/utils/vectorStore.js).                                    *)
(*                                                                         *)
(* JavaScript runs the store single-threaded: a call runs without          *)
(* interruption up to an `await`, and other calls may run while it is      *)
(* suspended.  Each async method is therefore split at its awaits into a   *)
(* Call action (the code up to the await) and a Resume action (the code    *)
(* after it).  chunkText (frontend/src/utils/api.js) is modelled one loop  *)
(* iteration per step, and App.jsx (processNewFiles, removeFile,           *)
(* handleChatMessage) as the caller that drives the store.                 *)
(* cosineSimilarity is also followed statement by statement in IEEE 754    *)
(* double precision, and the upload and chat routes of the Express server  *)
(* (backend) with the analyses they save and read.                         *)
(***************************************************************************)
EXTENDS Integers, Sequences, FiniteSets, TLC

VARIABLES
    apiKey,      \* TRUE iff a usable VITE_HUGGINGFACE_API_KEY is configured
    remoteDims,  \* length of the vectors the configured remote model returns
    documents,   \* this.documents : fileId  -> document
    chunks,      \* this.chunks    : chunkId -> chunk
    embeddings,  \* this.embeddings: chunkId -> vector
    arrays,      \* the heap of index arrays: reference -> array contents
    index,       \* this.index: a reference into arrays
    exported,    \* the record returned by the latest export()
    snapshot,    \* history: what that record held when export() returned
    adds,        \* addDocument calls suspended at `await generateBatchEmbeddings`
    searches,    \* search calls suspended at `await findSimilarChunks`
    ret,         \* outcome of the call that completed, until the caller takes it
    ops,         \* number of addDocument calls made so far
    chunker,     \* the chunkText call in progress: arguments, locals, result
    app,         \* App.jsx: configuration, React state, the calls in progress
    calls,       \* the embedding service's functions called directly: what
                 \* each text was embedded to, and the call that returned last
    backend      \* the Express server: the analyses it saved, the upload and
                 \* the chat request it is handling

vars == <<apiKey, remoteDims, documents, chunks, embeddings, arrays, index,
          exported, snapshot, adds, searches, ret, ops, chunker, app, calls,
          backend>>

store == <<documents, chunks, embeddings, arrays[index]>>

-----------------------------------------------------------------------------
(* Bounds of the model *)

MaxAdds == 2
MaxTopK == 2

(* Program constants *)

Dimensions == 384
AltDimensions == 768
Prime == 7919

\* A vector is represented by its length and its VecComps leading
\* components; the components after them are held at 0.
VecComps == 2

-----------------------------------------------------------------------------
(* JavaScript values passed as texts: strings (sequences of char codes),   *)
(* null, and a number.                                                     *)

Str(s) == [t |-> "str", s |-> s]
Null == [t |-> "null", s |-> <<>>]
Num == [t |-> "num", s |-> <<>>]

SP == 32
NL == 10
Dot == 46
TxtA == Str(<<97>>)
TxtB == Str(<<98>>)
TxtSpA == Str(<<SP, 97>>)
TxtEmpty == Str(<<>>)
TxtBlank == Str(<<SP>>)

FileIds == {"d1", "d2"}
NoFile == "null"
\* the empty string, an id that JavaScript takes as false
EmptyId == ""

\* the fileId arguments search is called with
Filters == {NoFile, "d1"}

\* the callers of the store: file drops call addDocument, the chat calls
\* search; each caller has at most one call outstanding
Uploaders == {"drop1", "drop2"}
Askers == {"chat"}

\* `${fileId}_chunk_${i}`
ChunkId(fileId, i) == <<fileId, i>>

\* the textChunks arguments addDocument is called with
ChunkLists == { <<TxtA>>, <<TxtA, TxtB>>, <<TxtEmpty, TxtB>>, <<Null>>, <<Num>> }

\* the (fileId, textChunks) arguments addDocument is called with: every list
\* for d1, and a second document of two chunks
AddArgs == ({"d1"} \X ChunkLists) \cup { <<"d2", <<TxtA, TxtB>>>> }

\* the query arguments search is called with
Queries == { TxtA, TxtEmpty, TxtBlank }

\* App.jsx at rest: no LLM key, no error shown, no file processed, no call
\* of processNewFiles or handleChatMessage in progress
NoReply == [kind |-> "none", settled |-> "none", text |-> ""]
NoIngest == [pc |-> "idle", fileId |-> NoFile]
NoChat ==
    [pc |-> "idle", question |-> <<>>, totalDocuments |-> 0, found |-> 0,
     broken |-> FALSE, generation |-> "none", reply |-> NoReply]
\* a processNewFiles(filesToProcess) call: the list it loops over, the
\* processedFiles map its closure holds, the position of the loop and the
\* addDocument call it awaits
NoDrop ==
    [pc |-> "idle", files |-> <<>>, processedFiles |-> {}, i |-> 0, call |-> -1]
NoApp ==
    [llmConfigured |-> FALSE, error |-> "null", processedFiles |-> {},
     ingest |-> NoIngest, chat |-> NoChat,
     files |-> <<>>, drops |-> [d \in Uploaders |-> NoDrop]]


EmptyMap == << >>

\* the server at rest: no analysis saved, no request being handled.  parsed
\* keeps, for every saved analysis, the text parseFile returned for it
NoUpload == [pc |-> "idle", extractedText |-> <<>>, fileId |-> NoFile, status |-> 0]
NoBackendChat ==
    [pc |-> "idle", documentId |-> NoFile, documentText |-> <<>>,
     indexed |-> FALSE, status |-> 0]
NoBackend ==
    [analyses |-> EmptyMap, parsed |-> EmptyMap, uploads |-> 0,
     upload |-> NoUpload, chat |-> NoBackendChat]

\* no function of the embedding service called yet
NoCall == [fn |-> "none", args |-> <<>>, result |-> <<>>]
NoCalls == [seen |-> EmptyMap, hash |-> <<0, 0>>, last |-> NoCall]
Put(m, k, v) == [x \in (DOMAIN m) \cup {k} |-> IF x = k THEN v ELSE m[x]]
Del(m, ks) == [x \in (DOMAIN m) \ ks |-> m[x]]

Undefined == [len |-> -1, comp |-> <<>>]
IsUndefined(v) == v.len = -1

Min(a, b) == IF a < b THEN a ELSE b
Sign(x) == IF x > 0 THEN 1 ELSE IF x < 0 THEN -1 ELSE 0

-----------------------------------------------------------------------------
(* embeddingService.js *)

\* !v
Falsy(v) == v.t = "null" \/ (v.t = "str" /\ Len(v.s) = 0)

\* the white space String.prototype.trim removes, as far as texts hold it
IsSpace(c) == c \in {SP, NL}

RECURSIVE TrimLeft(_)
TrimLeft(s) == IF s # <<>> /\ IsSpace(Head(s)) THEN TrimLeft(Tail(s)) ELSE s

RECURSIVE TrimRight(_)
TrimRight(s) ==
    IF s # <<>> /\ IsSpace(s[Len(s)])
    THEN TrimRight(SubSeq(s, 1, Len(s) - 1))
    ELSE s

\* String.prototype.trim
Trim(s) == TrimRight(TrimLeft(s))

\* One iteration of the hash loop: hash = ((hash << 5) - hash) + char, then
\* hash & hash.  Both << and & convert to a 32-bit integer, so the result is
\* 31 * hash + char modulo 2^32.  The 32-bit word is kept as two 16-bit
\* halves <<hi, lo>>.
Half == 65536
HashStep(h, char) ==
    LET low == 31 * h[2] + char
    IN  <<(31 * h[1] + (low \div Half)) % Half, low % Half>>

\* the hash loop of generateSimpleEmbedding
RECURSIVE HashFrom(_, _)
HashFrom(h, s) ==
    IF s = <<>> THEN h ELSE HashFrom(HashStep(h, Head(s)), Tail(s))

\* the hash loop started from the hash the last call ended with, as if hash
\* were declared outside the function
HashKept(s) ==
    LET h == HashFrom(calls.hash, s)
    IN  IF h[1] >= Half \div 2 THEN (h[1] - Half) * Half + h[2]
        ELSE h[1] * Half + h[2]

\* the signed value of the 32-bit word
Hash(s) ==
    LET h == HashFrom(<<0, 0>>, s)
    IN  IF h[1] >= Half \div 2 THEN (h[1] - Half) * Half + h[2]
        ELSE h[1] * Half + h[2]

\* embedding[i] = frac(sin(seed) * 10000) * 2 - 1 with seed = hash + i * 7919.
\* Math.sin is not expressible; the component is a deterministic function
\* of the seed with values in a symmetric range around 0.
Component(hash, i) == (((hash % 5) + ((i * Prime) % 5)) % 5) - 2

\* generateSimpleEmbedding(text), text a string
generateSimpleEmbedding(s) ==
    [len |-> Dimensions,
     comp |-> [i \in 1..VecComps |-> Component(Hash(s), i - 1)]]

\* what hf.featureExtraction may answer: a vector of the remote model's
\* length, or a failure (the catch falls back to the simple embedding)
RemoteComps == { [i \in 1..VecComps |-> 1] }
RemoteVectors == { [len |-> remoteDims, comp |-> c] : c \in RemoteComps }

\* generateEmbedding(text): the set of outcomes [threw, vec]
generateEmbedding(v) ==
    IF v.t # "str" \/ Falsy(v) \/ Len(Trim(v.s)) = 0
    THEN { [threw |-> TRUE, vec |-> Undefined] }
    ELSE IF ~apiKey
         THEN { [threw |-> FALSE, vec |-> generateSimpleEmbedding(Trim(v.s))] }
         ELSE { [threw |-> FALSE, vec |-> e] :
                  e \in RemoteVectors \cup {generateSimpleEmbedding(Trim(v.s))} }

\* texts.filter(text => text && text.trim().length > 0); a truthy value
\* without a trim method makes the callback throw
FilterThrows(texts) == \E i \in 1..Len(texts) : texts[i].t = "num"
ValidTexts(texts) == SelectSeq(texts, LAMBDA v : ~Falsy(v) /\ Len(Trim(v.s)) > 0)

\* all sequences of length Len(vs) whose i-th element is an outcome of
\* embedding vs[i]
RECURSIVE EmbedEach(_)
EmbedEach(vs) ==
    IF vs = <<>> THEN { <<>> }
    ELSE { <<e>> \o rest :
             e \in (IF ~apiKey
                    THEN {generateSimpleEmbedding(Head(vs).s)}
                    ELSE { o.vec : o \in generateEmbedding(Head(vs)) }),
             rest \in EmbedEach(Tail(vs)) }

\* generateBatchEmbeddings(texts): the set of outcomes [threw, embeddings]
generateBatchEmbeddings(texts) ==
    IF Len(texts) = 0 THEN { [threw |-> FALSE, embeddings |-> <<>>] }
    ELSE IF FilterThrows(texts) THEN { [threw |-> TRUE, embeddings |-> <<>>] }
    ELSE { [threw |-> FALSE, embeddings |-> es] : es \in EmbedEach(ValidTexts(texts)) }

\* embeddings[i] of a JavaScript array (0-based); undefined past the end
At(es, i) == IF i + 1 <= Len(es) THEN es[i + 1] ELSE Undefined

RECURSIVE DotFrom(_, _, _)
DotFrom(a, b, i) ==
    IF i > Len(a) THEN 0 ELSE a[i] * b[i] + DotFrom(a, b, i + 1)

\* cosineSimilarity without its length check: the loop runs over the
\* components both vectors have
cosineSimilarityUnchecked(vecA, vecB) ==
    IF IsUndefined(vecA) \/ IsUndefined(vecB)
    THEN [threw |-> TRUE, sgn |-> 0, num |-> 0, den |-> 1]
    ELSE LET dotProduct == DotFrom(vecA.comp, vecB.comp, 1)
             normA2 == DotFrom(vecA.comp, vecA.comp, 1)
             normB2 == DotFrom(vecB.comp, vecB.comp, 1)
         IN  IF normA2 = 0 \/ normB2 = 0
             THEN [threw |-> FALSE, sgn |-> 0, num |-> 0, den |-> 1]
             ELSE [threw |-> FALSE, sgn |-> Sign(dotProduct),
                   num |-> dotProduct * dotProduct, den |-> normA2 * normB2]

\* cosineSimilarity(vecA, vecB): [threw, sgn, num, den]; the value is
\* sgn * sqrt(num / den), kept exact instead of as a float
cosineSimilarity(vecA, vecB) ==
    IF IsUndefined(vecA) \/ IsUndefined(vecB) \/ vecA.len # vecB.len
    THEN [threw |-> TRUE, sgn |-> 0, num |-> 0, den |-> 1]
    ELSE LET dotProduct == DotFrom(vecA.comp, vecB.comp, 1)
             normA2 == DotFrom(vecA.comp, vecA.comp, 1)
             normB2 == DotFrom(vecB.comp, vecB.comp, 1)
         IN  IF normA2 = 0 \/ normB2 = 0
             THEN [threw |-> FALSE, sgn |-> 0, num |-> 0, den |-> 1]
             ELSE [threw |-> FALSE, sgn |-> Sign(dotProduct),
                   num |-> dotProduct * dotProduct, den |-> normA2 * normB2]

\* sign of x - y for two similarity values
SimCmp(x, y) ==
    IF x.sgn # y.sgn THEN Sign(x.sgn - y.sgn)
    ELSE IF x.sgn = 0 THEN 0
    ELSE x.sgn * Sign(x.num * y.den - y.num * x.den)

\* the comparator with its operands exchanged: ascending order
ComparatorAscending(a, b) == SimCmp(a.similarity, b.similarity)

\* the comparator (a, b) => b.similarity - a.similarity
Comparator(a, b) == SimCmp(b.similarity, a.similarity)

\* Array.prototype.sort (stable): insert x behind every element that does
\* not have to come after it
RECURSIVE InsertSorted(_, _)
InsertSorted(sorted, x) ==
    IF sorted = <<>> THEN <<x>>
    ELSE IF Comparator(Head(sorted), x) <= 0
         THEN <<Head(sorted)>> \o InsertSorted(Tail(sorted), x)
         ELSE <<x>> \o sorted

RECURSIVE SortFrom(_, _, _)
SortFrom(sorted, xs, i) ==
    IF i > Len(xs) THEN sorted ELSE SortFrom(InsertSorted(sorted, xs[i]), xs, i + 1)

Sort(xs) == SortFrom(<<>>, xs, 1)

\* .slice(0, topK)
Slice(xs, topK) == SubSeq(xs, 1, Min(topK, Len(xs)))

\* findSimilarChunks after the query embedding is known: [threw, results]
RankChunks(queryEmbedding, cands, topK) ==
    LET similarities ==
            [i \in 1..Len(cands) |->
                [chunkId |-> cands[i].chunkId, fileId |-> cands[i].fileId,
                 similarity |-> cosineSimilarity(queryEmbedding, cands[i].embedding),
                 index |-> i - 1]]
    IN  IF \E i \in 1..Len(cands) : similarities[i].similarity.threw
        THEN [threw |-> TRUE, results |-> <<>>]
        ELSE [threw |-> FALSE, results |-> Slice(Sort(similarities), topK)]

-----------------------------------------------------------------------------
(* api.js: chunkText *)

\* the characters of the texts chunkText is called with
Chars == {97, SP, Dot, NL}

MaxTextLen == 4
ShortTexts == UNION { [1..n -> Chars] : n \in 0..MaxTextLen }

\* a run of letters in front of a short text: a text longer than every
\* maxChunkSize, with its break characters in the last third of a window
Filler == <<97, 97, 97, 97, 97>>
\* texts with one character at 70% of a window of ten, where
\* maxChunkSize * 0.7 is a whole number
AtSeventy == { <<97, 97, 97, 97, 97, 97, 97, c, 97, 97, 97, 97>> : c \in Chars }
ChunkTexts == ShortTexts \cup { Filler \o w : w \in ShortTexts } \cup AtSeventy

\* the maxChunkSize and overlap arguments chunkText is called with
ChunkSizes == {1, 2, 3, 7, 10}
Overlaps == {0, 1, 2, 6, 7}

\* the number of loop iterations followed
MaxIter == 10

Max(a, b) == IF a > b THEN a ELSE b

\* the largest i <= from with s[i] = c (0-based), or -1
RECURSIVE LastFrom(_, _, _)
LastFrom(s, c, from) ==
    IF from < 0 THEN -1
    ELSE IF s[from + 1] = c THEN from
    ELSE LastFrom(s, c, from - 1)

\* String.prototype.lastIndexOf(c, fromIndex): fromIndex is clamped to
\* 0..length - 1
LastIndexOf(s, c, fromIndex) ==
    IF Len(s) = 0 THEN -1
    ELSE LastFrom(s, c, Max(0, Min(fromIndex, Len(s) - 1)))

\* String.prototype.slice(start, end): a negative argument counts from the
\* end of the string; [from, to) are the positions taken
SliceFrom(s, start) ==
    IF start < 0 THEN Max(Len(s) + start, 0) ELSE Min(start, Len(s))
SliceTo(s, end) ==
    IF end < 0 THEN Max(Len(s) + end, 0) ELSE Min(end, Len(s))
StringSlice(s, start, end) ==
    IF SliceFrom(s, start) < SliceTo(s, end)
    THEN SubSeq(s, SliceFrom(s, start) + 1, SliceTo(s, end))
    ELSE <<>>

\* the end of the window with the break point taken from 70% of the window
\* on, 70% included
WindowEndFromSeventy(text, maxChunkSize, start) ==
    LET end == start + maxChunkSize
        lastPeriod == LastIndexOf(text, Dot, end)
        lastNewline == LastIndexOf(text, NL, end)
        lastSpace == LastIndexOf(text, SP, end)
        breakPoint == Max(lastPeriod, Max(lastNewline, lastSpace))
    IN  IF end < Len(text) /\ 10 * breakPoint >= 10 * start + 7 * maxChunkSize
        THEN breakPoint + 1
        ELSE end

\* the end of the window that starts at start: start + maxChunkSize, or one
\* past the last break character when that lies beyond 70% of the window.
\* breakPoint > start + maxChunkSize * 0.7 is compared in tenths.
WindowEnd(text, maxChunkSize, start) ==
    LET end == start + maxChunkSize
        lastPeriod == LastIndexOf(text, Dot, end)
        lastNewline == LastIndexOf(text, NL, end)
        lastSpace == LastIndexOf(text, SP, end)
        breakPoint == Max(lastPeriod, Max(lastNewline, lastSpace))
    IN  IF end < Len(text) /\ 10 * breakPoint > 10 * start + 7 * maxChunkSize
        THEN breakPoint + 1
        ELSE end

\* the chunk pushed for the window [start, end): s is the trimmed slice,
\* [lo, hi) are the positions of the text s holds, moved tells whether the
\* break point search changed the end
Piece(text, maxChunkSize, start, end) ==
    LET raw == StringSlice(text, start, end)
        lo == SliceFrom(text, start) + (Len(raw) - Len(TrimLeft(raw)))
    IN  [start |-> start, end |-> end, moved |-> end # start + maxChunkSize,
         lo |-> lo, hi |-> lo + Len(Trim(raw)), s |-> Trim(raw)]

NoChunker ==
    [pc |-> "idle", text |-> <<>>, maxChunkSize |-> 0, overlap |-> 0,
     start |-> 0, chunks |-> <<>>, result |-> <<>>]

-----------------------------------------------------------------------------
(* vectorStore.js *)

Refs == {1, 2}

NoRet ==
    [op |-> "none", status |-> "none", stage |-> "none", fileId |-> NoFile,
     results |-> <<>>, cands |-> <<>>, topK |-> 0,
     queryEmbedding |-> Undefined, texts |-> <<>>, batch |-> <<>>,
     stats |-> <<>>]

NoExport ==
    [valid |-> FALSE, documents |-> EmptyMap, chunks |-> EmptyMap,
     embeddings |-> EmptyMap, index |-> 1]

\* the store as one value: idx is the contents of the array this.index refers to
Cur ==
    [documents |-> documents, chunks |-> chunks, embeddings |-> embeddings,
     idx |-> arrays[index]]

\* the for loop of addDocument from iteration i on; st carries the maps, the
\* index array, the local chunkIds and whether an iteration threw
RECURSIVE AddLoop(_, _, _, _, _)
AddLoop(st, fileId, textChunks, embs, i) ==
    IF i >= Len(textChunks) THEN st
    ELSE LET chunkId == ChunkId(fileId, i)
             text == textChunks[i + 1]
             set == [st EXCEPT
                       !.chunkIds = Append(@, chunkId),
                       !.chunks = Put(@, chunkId,
                                      [id |-> chunkId, fileId |-> fileId,
                                       text |-> text, index |-> i]),
                       !.embeddings = Put(@, chunkId, At(embs, i))]
         IN  IF text.t # "str"
             THEN \* textChunks[i].substring is not a function
                  [set EXCEPT !.threw = TRUE]
             ELSE AddLoop([set EXCEPT
                             !.idx = Append(@, [chunkId |-> chunkId,
                                                embedding |-> At(embs, i),
                                                fileId |-> fileId])],
                          fileId, textChunks, embs, i + 1)

\* addDocument with documents.set moved in front of the await: the document
\* is registered whatever the batch embedding does
AddDocumentBodyRegisterFirst(S, batch, fileId, textChunks) ==
    LET doc == [id |-> fileId, chunkIds |-> <<>>, totalChunks |-> Len(textChunks)]
        st == AddLoop([chunks |-> S.chunks, embeddings |-> S.embeddings,
                       idx |-> S.idx, chunkIds |-> <<>>, threw |-> FALSE],
                      fileId, textChunks, batch.embeddings, 0)
    IN  IF batch.threw
        THEN [documents |-> Put(S.documents, fileId, doc), chunks |-> S.chunks,
              embeddings |-> S.embeddings, idx |-> S.idx, threw |-> TRUE]
        ELSE [documents |-> Put(S.documents, fileId,
                                IF st.threw THEN doc
                                ELSE [doc EXCEPT !.chunkIds = st.chunkIds]),
              chunks |-> st.chunks, embeddings |-> st.embeddings,
              idx |-> st.idx, threw |-> st.threw]

\* the try block of addDocument once generateBatchEmbeddings has settled
\* with outcome batch: [documents, chunks, embeddings, idx, threw]
AddDocumentBody(S, batch, fileId, textChunks) ==
    IF batch.threw
    THEN [documents |-> S.documents, chunks |-> S.chunks,
          embeddings |-> S.embeddings, idx |-> S.idx, threw |-> TRUE]
    ELSE LET doc == [id |-> fileId, chunkIds |-> <<>>,
                     totalChunks |-> Len(textChunks)]
             st == AddLoop([chunks |-> S.chunks, embeddings |-> S.embeddings,
                            idx |-> S.idx, chunkIds |-> <<>>, threw |-> FALSE],
                           fileId, textChunks, batch.embeddings, 0)
         IN  [documents |-> Put(S.documents, fileId,
                                IF st.threw THEN doc
                                ELSE [doc EXCEPT !.chunkIds = st.chunkIds]),
              chunks |-> st.chunks, embeddings |-> st.embeddings,
              idx |-> st.idx, threw |-> st.threw]

\* removeDocument(fileId): [documents, chunks, embeddings, idx]
RemoveDocumentBody(S, fileId) ==
    IF fileId \notin DOMAIN S.documents THEN S
    ELSE LET ids == { S.documents[fileId].chunkIds[i] :
                        i \in 1..Len(S.documents[fileId].chunkIds) }
         IN  [documents |-> Del(S.documents, {fileId}),
              chunks |-> Del(S.chunks, ids),
              embeddings |-> Del(S.embeddings, ids),
              idx |-> SelectSeq(S.idx, LAMBDA item : item.fileId # fileId)]

\* the synchronous part of search: the filter and chunksForSearch
SearchIndex(S, fileId) ==
    IF fileId \notin {NoFile, EmptyId}
    THEN SelectSeq(S.idx, LAMBDA item : item.fileId = fileId)
    ELSE S.idx

\* result.map(...) at the end of search: chunk and document are looked up in
\* the maps as they are when the call resumes
Enhance(S, results) ==
    [i \in 1..Len(results) |->
        [chunkId |-> results[i].chunkId, fileId |-> results[i].fileId,
         similarity |-> results[i].similarity, index |-> results[i].index,
         chunkDefined |-> results[i].chunkId \in DOMAIN S.chunks,
         documentDefined |-> results[i].fileId \in DOMAIN S.documents]]

\* getStats()
Stats(S) ==
    <<Cardinality(DOMAIN S.documents), Cardinality(DOMAIN S.chunks),
      Cardinality(DOMAIN S.embeddings), Len(S.idx)>>

\* a reference for a newly allocated array: one the exported record does not
\* hold; arrays no longer referred to are dropped
FreshRef == CHOOSE r \in Refs : ~(exported.valid /\ r = exported.index)

Reassign(r, contents, exp) ==
    [x \in Refs |-> IF x = r THEN contents
                    ELSE IF exp.valid /\ x = exp.index THEN arrays[x]
                    ELSE <<>>]

-----------------------------------------------------------------------------
(* Actions *)

Init ==
    /\ apiKey \in BOOLEAN
    /\ remoteDims \in {Dimensions, AltDimensions}
    /\ (~apiKey => remoteDims = Dimensions)
    /\ documents = EmptyMap
    /\ chunks = EmptyMap
    /\ embeddings = EmptyMap
    /\ arrays = [r \in Refs |-> <<>>]
    /\ index = 1
    /\ exported = NoExport
    /\ snapshot = NoExport
    /\ adds = {}
    /\ searches = {}
    /\ ret = NoRet
    /\ ops = 0
    /\ app = NoApp
    /\ calls = NoCalls
    /\ backend = NoBackend
    /\ chunker = NoChunker

\* addDocument up to `await generateBatchEmbeddings(textChunks)`
AddDocumentCall(fileId, textChunks) ==
    /\ ret = NoRet
    /\ ops < MaxAdds
    /\ Cardinality(adds) < Cardinality(Uploaders)
    /\ adds' = adds \cup {[call |-> ops, fileId |-> fileId, textChunks |-> textChunks]}
    /\ ops' = ops + 1
    /\ ret' = NoRet
    /\ UNCHANGED <<backend, calls, chunker, apiKey, remoteDims, documents, chunks, embeddings, arrays,
                   index, exported, snapshot, searches>>

\* addDocument from the await on
AddDocumentResume(task) ==
    /\ ret = NoRet
    /\ task \in adds
    /\ \E batch \in generateBatchEmbeddings(task.textChunks) :
         LET S == AddDocumentBody(Cur, batch, task.fileId, task.textChunks)
         IN  /\ documents' = S.documents
             /\ chunks' = S.chunks
             /\ embeddings' = S.embeddings
             /\ arrays' = [arrays EXCEPT ![index] = S.idx]
             /\ ret' = [NoRet EXCEPT !.op = "addDocument", !.fileId = task.fileId,
                          !.texts = task.textChunks, !.batch = batch.embeddings,
                          !.status = IF S.threw THEN "error" ELSE "ok",
                          !.stage = IF batch.threw THEN "embedding" ELSE "register"]
    /\ adds' = adds \ {task}
    /\ UNCHANGED <<backend, calls, chunker, apiKey, remoteDims, index, exported, snapshot, searches, ops>>

RemoveDocument(fileId) ==
    /\ ret = NoRet
    /\ LET S == RemoveDocumentBody(Cur, fileId)
       IN  /\ documents' = S.documents
           /\ chunks' = S.chunks
           /\ embeddings' = S.embeddings
           /\ IF fileId \in DOMAIN documents
              THEN /\ index' = FreshRef
                   /\ arrays' = Reassign(FreshRef, S.idx, exported)
              ELSE UNCHANGED <<index, arrays>>
    /\ ret' = [NoRet EXCEPT !.op = "removeDocument", !.status = "ok", !.fileId = fileId]
    /\ UNCHANGED <<backend, calls, chunker, apiKey, remoteDims, exported, snapshot, adds, searches, ops>>

Clear ==
    /\ ret = NoRet
    /\ documents' = EmptyMap
    /\ chunks' = EmptyMap
    /\ embeddings' = EmptyMap
    /\ index' = FreshRef
    /\ arrays' = Reassign(FreshRef, <<>>, exported)
    /\ ret' = [NoRet EXCEPT !.op = "clear", !.status = "ok"]
    /\ UNCHANGED <<backend, calls, chunker, apiKey, remoteDims, exported, snapshot, adds, searches, ops>>

\* export(): the maps are copied, the index array is not; one exported
\* record is followed
Export ==
    /\ ret = NoRet
    /\ ~exported.valid
    /\ exported' = [valid |-> TRUE, documents |-> documents, chunks |-> chunks,
                    embeddings |-> embeddings, index |-> index]
    /\ snapshot' = [valid |-> TRUE, documents |-> documents, chunks |-> chunks,
                    embeddings |-> embeddings, index |-> arrays[index]]
    /\ arrays' = [x \in Refs |-> IF x = index THEN arrays[x] ELSE <<>>]
    /\ ret' = [NoRet EXCEPT !.op = "export", !.status = "ok"]
    /\ UNCHANGED <<backend, calls, chunker, apiKey, remoteDims, documents, chunks, embeddings, index,
                   adds, searches, ops>>

\* import(data) with data the record export() returned
Import ==
    /\ ret = NoRet
    /\ exported.valid
    /\ documents' = exported.documents
    /\ chunks' = exported.chunks
    /\ embeddings' = exported.embeddings
    /\ index' = exported.index
    /\ arrays' = [x \in Refs |-> IF x = exported.index THEN arrays[x] ELSE <<>>]
    /\ ret' = [NoRet EXCEPT !.op = "import", !.status = "ok"]
    /\ UNCHANGED <<backend, calls, chunker, apiKey, remoteDims, exported, snapshot, adds, searches, ops>>

\* search up to `await findSimilarChunks(...)`.  A call whose outcome is
\* settled before the store is read again (an empty search index, a missing
\* chunk, an empty or blank query) completes here.  topK is read only by the
\* slice after the await and no other call sees it: it is drawn when the
\* call resumes.
SearchCall(query, fileId) ==
    /\ ret = NoRet
    /\ Cardinality(searches) < Cardinality(Askers)
    /\ LET searchIndex == SearchIndex(Cur, fileId)
           r == [NoRet EXCEPT !.op = "search", !.fileId = fileId]
       IN  IF Len(searchIndex) = 0
           THEN /\ ret' = [r EXCEPT !.status = "ok", !.stage = "empty"]
                /\ UNCHANGED searches
           ELSE IF \E i \in 1..Len(searchIndex) :
                      searchIndex[i].chunkId \notin DOMAIN chunks
           THEN \* this.chunks.get(item.chunkId) is undefined
                /\ ret' = [r EXCEPT !.status = "error", !.stage = "chunks"]
                /\ UNCHANGED searches
           ELSE IF Falsy(query)
           THEN \* findSimilarChunks returns [] for an empty query
                /\ ret' = [r EXCEPT !.status = "ok", !.stage = "noquery"]
                /\ UNCHANGED searches
           ELSE IF \A q \in generateEmbedding(query) : q.threw
           THEN \* generateEmbedding rejects a blank query
                /\ ret' = [r EXCEPT !.status = "error", !.stage = "embedding"]
                /\ UNCHANGED searches
           ELSE /\ searches' = searches \cup
                      {[query |-> query, fileId |-> fileId, cands |-> searchIndex]}
                /\ ret' = NoRet
    /\ UNCHANGED <<backend, calls, chunker, apiKey, remoteDims, documents, chunks, embeddings, arrays,
                   index, exported, snapshot, adds, ops>>

\* search from the query embedding on
SearchResume(task, topK) ==
    /\ ret = NoRet
    /\ task \in searches
    /\ \E q \in generateEmbedding(task.query) :
         LET ranked == RankChunks(q.vec, task.cands, topK)
             r == [NoRet EXCEPT !.op = "search", !.fileId = task.fileId,
                                !.topK = topK, !.cands = task.cands,
                                !.queryEmbedding = q.vec]
         IN  IF ranked.threw
             THEN ret' = [r EXCEPT !.status = "error", !.stage = "similarity"]
             ELSE ret' = [r EXCEPT !.status = "ok", !.stage = "ranked",
                                   !.results = Enhance(Cur, ranked.results)]
    /\ searches' = searches \ {task}
    /\ UNCHANGED <<backend, calls, chunker, apiKey, remoteDims, documents, chunks, embeddings, arrays,
                   index, exported, snapshot, adds, ops>>

\* the caller takes the outcome of the call that completed
Return ==
    /\ ret # NoRet
    /\ ret' = NoRet
    /\ UNCHANGED <<backend, calls, chunker, apiKey, remoteDims, documents, chunks, embeddings, arrays,
                   index, exported, snapshot, adds, searches, ops>>

GetStats ==
    /\ ret = NoRet
    /\ ret' = [NoRet EXCEPT !.op = "getStats", !.status = "ok", !.stats = Stats(Cur)]
    /\ UNCHANGED <<backend, calls, chunker, apiKey, remoteDims, documents, chunks, embeddings, arrays,
                   index, exported, snapshot, adds, searches, ops>>

Next ==
    \/ (\E args \in AddArgs : AddDocumentCall(args[1], args[2])) /\ UNCHANGED app
    \/ (\E task \in adds : AddDocumentResume(task)) /\ UNCHANGED app
    \/ (\E fileId \in FileIds : RemoveDocument(fileId)) /\ UNCHANGED app
    \/ (Clear) /\ UNCHANGED app
    \/ (\E query \in Queries, fileId \in Filters : SearchCall(query, fileId)) /\ UNCHANGED app
    \/ (\E task \in searches, topK \in 1..MaxTopK : SearchResume(task, topK)) /\ UNCHANGED app
    \/ (Return) /\ UNCHANGED app

Spec == Init /\ [][Next]_vars

\* the store with export and import
NextSnapshot ==
    \/ (\E args \in AddArgs : AddDocumentCall(args[1], args[2])) /\ UNCHANGED app
    \/ (\E task \in adds : AddDocumentResume(task)) /\ UNCHANGED app
    \/ (\E fileId \in FileIds : RemoveDocument(fileId)) /\ UNCHANGED app
    \/ (Clear) /\ UNCHANGED app
    \/ (Export) /\ UNCHANGED app
    \/ (Import) /\ UNCHANGED app
    \/ (Return) /\ UNCHANGED app

SpecSnapshot == Init /\ [][NextSnapshot]_vars

\* the calls that write the store, and getStats: search writes nothing
NextIngest ==
    \/ (\E args \in AddArgs : AddDocumentCall(args[1], args[2])) /\ UNCHANGED app
    \/ (\E task \in adds : AddDocumentResume(task)) /\ UNCHANGED app
    \/ (\E fileId \in FileIds : RemoveDocument(fileId)) /\ UNCHANGED app
    \/ (Clear) /\ UNCHANGED app
    \/ (GetStats) /\ UNCHANGED app
    \/ (Return) /\ UNCHANGED app

SpecIngest == Init /\ [][NextIngest]_vars

\* ingestion and search
NextSearch ==
    \/ (\E args \in AddArgs : AddDocumentCall(args[1], args[2])) /\ UNCHANGED app
    \/ (\E task \in adds : AddDocumentResume(task)) /\ UNCHANGED app
    \/ (\E query \in Queries, fileId \in Filters : SearchCall(query, fileId)) /\ UNCHANGED app
    \/ (\E task \in searches, topK \in 1..MaxTopK : SearchResume(task, topK)) /\ UNCHANGED app
    \/ (Return) /\ UNCHANGED app

SpecSearch == Init /\ [][NextSearch]_vars

\* the ids search and removeDocument are called with: registered ones, ones
\* never registered, the empty string, and for search no id
LookupIds == FileIds \cup {EmptyId}

\* the store called with ids it may not know
NextLookup ==
    \/ (\E args \in AddArgs : AddDocumentCall(args[1], args[2])) /\ UNCHANGED app
    \/ (\E task \in adds : AddDocumentResume(task)) /\ UNCHANGED app
    \/ (\E fileId \in LookupIds : RemoveDocument(fileId)) /\ UNCHANGED app
    \/ (\E query \in Queries, fileId \in LookupIds \cup {NoFile} :
          SearchCall(query, fileId)) /\ UNCHANGED app
    \/ (\E task \in searches, topK \in 1..MaxTopK : SearchResume(task, topK)) /\ UNCHANGED app
    \/ (Return) /\ UNCHANGED app

SpecLookup == Init /\ [][NextLookup]_vars

\* something of fileId is in the store, or on its way into it
Contains(fileId) ==
    \/ fileId \in DOMAIN documents
    \/ \E c \in DOMAIN chunks : chunks[c].fileId = fileId
    \/ \E c \in DOMAIN embeddings : c[1] = fileId
    \/ \E i \in 1..Len(arrays[index]) : arrays[index][i].fileId = fileId
    \/ \E task \in adds : task.fileId = fileId

\* documents are added to a store that does not contain them, and removed
NextRoundTrip ==
    \/ (\E args \in AddArgs :
          ~Contains(args[1]) /\ AddDocumentCall(args[1], args[2])) /\ UNCHANGED app
    \/ (\E task \in adds : AddDocumentResume(task)) /\ UNCHANGED app
    \/ (\E fileId \in FileIds : RemoveDocument(fileId)) /\ UNCHANGED app
    \/ (GetStats) /\ UNCHANGED app
    \/ (\E query \in Queries : SearchCall(query, NoFile)) /\ UNCHANGED app
    \/ (\E task \in searches, topK \in 1..MaxTopK : SearchResume(task, topK)) /\ UNCHANGED app
    \/ (Return) /\ UNCHANGED app

SpecRoundTrip == Init /\ [][NextRoundTrip]_vars

-----------------------------------------------------------------------------
(* App.jsx: handleChatMessage and processNewFiles *)

\* String.prototype.toLowerCase on the letters A..Z
Lower(s) == [i \in 1..Len(s) |-> IF s[i] \in 65..90 THEN s[i] + 32 ELSE s[i]]

\* String.prototype.includes
Includes(s, sub) ==
    \E i \in 0..(Len(s) - Len(sub)) : SubSeq(s, i + 1, i + Len(sub)) = sub

\* the words handleChatMessage looks for in the lower-cased input
KwWhatDay == <<119, 104, 97, 116, 32, 100, 97, 121>>  \* 'what day'
KwWhatDate == <<119, 104, 97, 116, 32, 100, 97, 116, 101>>  \* 'what date'
KwToday == <<116, 111, 100, 97, 121>>  \* 'today'
KwTime == <<116, 105, 109, 101>>  \* 'time'
KwWhatTime == <<119, 104, 97, 116, 32, 116, 105, 109, 101>>  \* 'what time'
KwWeather == <<119, 101, 97, 116, 104, 101, 114>>  \* 'weather'
KwHello == <<104, 101, 108, 108, 111>>  \* 'hello'
KwHiSpace == <<104, 105, 32>>  \* 'hi '
KwHi == <<104, 105>>  \* 'hi'
KwHowAreYou == <<104, 111, 119, 32, 97, 114, 101, 32, 121, 111, 117>>  \* 'how are you'
KwHelp == <<104, 101, 108, 112>>  \* 'help'
KwWhatCanYouDo == <<119, 104, 97, 116, 32, 99, 97, 110, 32, 121, 111, 117, 32, 100, 111>>  \* 'what can you do'
KwCalculate == <<99, 97, 108, 99, 117, 108, 97, 116, 101>>  \* 'calculate'
KwWhatIs == <<119, 104, 97, 116, 32, 105, 115>>  \* 'what is'
KwPlus == <<43>>  \* '+'
KwMinus == <<45>>  \* '-'
KwTimes == <<42>>  \* '*'
KwSlash == <<47>>  \* '/'
KwWhoAreYou == <<119, 104, 111, 32, 97, 114, 101, 32, 121, 111, 117>>  \* 'who are you'
KwWhatAreYou == <<119, 104, 97, 116, 32, 97, 114, 101, 32, 121, 111, 117>>  \* 'what are you'
KwExplain == <<101, 120, 112, 108, 97, 105, 110>>  \* 'explain'
KwHowTo == <<104, 111, 119, 32, 116, 111>>  \* 'how to'
KwDefine == <<100, 101, 102, 105, 110, 101>>  \* 'define'

\* the general questions handleChatMessage answers without the documents,
\* in the order of its if statements; "none" if the input is none of them
Shortcut(userInputLower) ==
    IF \/ Includes(userInputLower, KwWhatDay)
       \/ Includes(userInputLower, KwWhatDate)
       \/ Includes(userInputLower, KwToday) THEN "date"
    ELSE IF \/ Includes(userInputLower, KwTime)
            \/ Includes(userInputLower, KwWhatTime) THEN "time"
    ELSE IF Includes(userInputLower, KwWeather) THEN "weather"
    ELSE IF \/ Includes(userInputLower, KwHello)
            \/ Includes(userInputLower, KwHiSpace)
            \/ userInputLower = KwHi THEN "hello"
    ELSE IF Includes(userInputLower, KwHowAreYou) THEN "howareyou"
    ELSE IF \/ Includes(userInputLower, KwHelp)
            \/ Includes(userInputLower, KwWhatCanYouDo) THEN "help"
    ELSE IF \/ Includes(userInputLower, KwCalculate)
            \/ /\ Includes(userInputLower, KwWhatIs)
               /\ \/ Includes(userInputLower, KwPlus)
                  \/ Includes(userInputLower, KwMinus)
                  \/ Includes(userInputLower, KwTimes)
                  \/ Includes(userInputLower, KwSlash) THEN "calculate"
    ELSE IF \/ Includes(userInputLower, KwWhoAreYou)
            \/ Includes(userInputLower, KwWhatAreYou) THEN "whoami"
    ELSE "none"

\* the fixed text each return statement of handleChatMessage starts with
ReplyText(kind) ==
    CASE kind = "date" -> "Today is "
      [] kind = "time" -> "The current time is "
      [] kind = "weather" -> "I don't have access to current weather data."
      [] kind = "hello" -> "Hello! I'm Ragnarok, your AI document analysis assistant."
      [] kind = "howareyou" -> "I'm doing great!"
      [] kind = "help" -> "I can help you with:"
      [] kind = "calculate" -> "I can't perform calculations right now."
      [] kind = "whoami" -> "I'm Ragnarok, an AI document analysis assistant."
      [] kind = "nodocs" -> "I don't have any documents to search yet."
      [] kind = "notfound-general" ->
             "I couldn't find relevant information in your uploaded documents about "
      [] kind = "notfound" -> "I searched through your "
      [] kind = "llm" -> "Powered by LangChain"
      [] kind = "sections" -> "Powered by LangChain"
      [] kind = "list" -> "Here's what I found in your documents:"
      [] kind = "error" ->
             "Sorry, I encountered an error while searching your documents: "
      [] OTHER -> ""

\* a value handleChatMessage returns
Reply(kind) == [kind |-> kind, settled |-> "resolved", text |-> ReplyText(kind)]

\* handleChatMessage without its catch: the error leaves the function
ChatCatchRethrow(error) == [kind |-> "error", settled |-> "rejected", text |-> ""]

\* the catch of handleChatMessage: the error becomes a message
ChatCatch(error) == Reply("error")

storeVars == <<apiKey, remoteDims, documents, chunks, embeddings, arrays,
               index, exported, snapshot, adds, searches, ret, ops>>

\* the top-k handleChatMessage asks the store for
ChatTopK == 3

\* the files dropped on the page: their name and what chunkText(text, 800,
\* 100) made of their text, non-empty trimmed strings
AppFiles == { <<"d1", <<TxtA>>>>, <<"d1", <<TxtA, TxtB>>>>, <<"d2", <<TxtA, TxtB>>>> }

\* the messages typed into the chat: SimpleChatbot passes non-empty trimmed
\* strings.  "a", "hi", "what is", "HELP"
ChatQuestions == { <<97>>, KwHi, KwWhatIs, <<72, 69, 76, 80>> }

\* the two messages of handleChatMessage for a search without results
NotFound(userInputLower) ==
    IF \/ Includes(userInputLower, KwExplain)
       \/ Includes(userInputLower, KwWhatIs)
       \/ Includes(userInputLower, KwHowTo)
       \/ Includes(userInputLower, KwDefine)
    THEN "notfound-general"
    ELSE "notfound"

\* the fallback of handleChatMessage: results.forEach reads
\* result.document.metadata.name, which throws for an undefined document
ListResults(broken) == IF broken THEN ChatCatch("TypeError") ELSE Reply("list")

\* processNewFiles for one file up to `await vectorStore.addDocument`.  With
\* no API key it shows an error and returns; a processed file is skipped.
ProcessNewFilesCall(fileId, textChunks) ==
    /\ ret = NoRet
    /\ app.ingest.pc = "idle"
    /\ IF ~apiKey
       THEN /\ app' = [app EXCEPT !.error = "configure",
                                  !.ingest = [pc |-> "done", fileId |-> fileId]]
            /\ UNCHANGED <<backend, storeVars, chunker, calls>>
       ELSE IF fileId \in app.processedFiles
       THEN /\ app' = [app EXCEPT !.error = "null",
                                  !.ingest = [pc |-> "done", fileId |-> fileId]]
            /\ UNCHANGED <<backend, storeVars, chunker, calls>>
       ELSE /\ AddDocumentCall(fileId, textChunks)
            /\ app' = [app EXCEPT !.error = "null",
                                  !.ingest = [pc |-> "adding", fileId |-> fileId]]

\* processNewFiles once addDocument has settled
ProcessNewFilesResume ==
    /\ app.ingest.pc = "adding"
    /\ ret.op = "addDocument"
    /\ app' = [app EXCEPT
                 !.ingest.pc = "done",
                 !.error = IF ret.status = "ok" THEN @ ELSE "processing",
                 !.processedFiles = IF ret.status = "ok"
                                    THEN @ \cup {ret.fileId} ELSE @]
    /\ Return

\* the page has shown the outcome of processNewFiles
ProcessNewFilesDone ==
    /\ ret = NoRet
    /\ app.ingest.pc = "done"
    /\ app' = [app EXCEPT !.ingest = NoIngest]
    /\ UNCHANGED <<backend, storeVars, chunker, calls>>

\* removeFile: the store is told only about processed files
RemoveFile(fileId) ==
    /\ fileId \in app.processedFiles
    /\ RemoveDocument(fileId)
    /\ app' = [app EXCEPT !.processedFiles = @ \ {fileId}]

\* handleChatMessage up to `await vectorStore.search(userInput, 3)`
HandleChatMessageCall(userInput) ==
    /\ ret = NoRet
    /\ app.chat.pc = "idle"
    /\ LET kind == Shortcut(Lower(userInput))
           stats == Stats(Cur)
           chat == [app.chat EXCEPT !.question = userInput,
                                    !.totalDocuments = stats[1]]
       IN  IF kind # "none"
           THEN /\ app' = [app EXCEPT !.chat =
                             [chat EXCEPT !.pc = "replied", !.reply = Reply(kind)]]
                /\ UNCHANGED <<backend, storeVars, chunker, calls>>
           ELSE IF stats[1] = 0
           THEN /\ app' = [app EXCEPT !.chat =
                             [chat EXCEPT !.pc = "replied",
                                          !.reply = Reply("nodocs")]]
                /\ UNCHANGED <<backend, storeVars, chunker, calls>>
           ELSE /\ SearchCall(Str(userInput), NoFile)
                /\ app' = [app EXCEPT !.chat = [chat EXCEPT !.pc = "searching"]]

\* handleChatMessage once search has settled, up to `await
\* answerWithContext(userInput, results)` or to its return
HandleChatMessageSearched ==
    /\ app.chat.pc = "searching"
    /\ ret.op = "search"
    /\ LET broken == \E i \in 1..Len(ret.results) : ~ret.results[i].documentDefined
           chat == [app.chat EXCEPT !.found = Len(ret.results), !.broken = broken]
       IN  app' = [app EXCEPT !.chat =
             IF ret.status # "ok"
             THEN [chat EXCEPT !.pc = "replied", !.reply = ChatCatch(ret.stage)]
             ELSE IF Len(ret.results) = 0
             THEN [chat EXCEPT !.pc = "replied",
                               !.reply = Reply(NotFound(Lower(chat.question)))]
             ELSE IF app.llmConfigured
             THEN [chat EXCEPT !.pc = "answering"]
             ELSE [chat EXCEPT !.pc = "replied", !.reply = ListResults(broken)]]
    /\ Return

\* handleChatMessage once answerWithContext has settled.  The chain reads
\* chunk.document.metadata.name for its context and fails on an undefined
\* document; answerWithContext then builds its own list, which fails the same
\* way, and handleChatMessage falls back to its list.
HandleChatMessageAnswered(generated) ==
    /\ ret = NoRet
    /\ app.chat.pc = "answering"
    /\ LET ok == generated /\ ~app.chat.broken
       IN  app' = [app EXCEPT !.chat =
             [@ EXCEPT !.pc = "replied",
                       !.generation = IF ok THEN "ok" ELSE "failed",
                       !.reply = IF ok THEN Reply("llm")
                                 ELSE IF ~app.chat.broken THEN Reply("sections")
                                 ELSE ListResults(app.chat.broken)]]
    /\ UNCHANGED <<backend, storeVars, chunker, calls>>

\* SimpleChatbot shows the reply
HandleChatMessageReturn ==
    /\ ret = NoRet
    /\ app.chat.pc = "replied"
    /\ app' = [app EXCEPT !.chat = NoChat]
    /\ UNCHANGED <<backend, storeVars, chunker, calls>>

\* removeFile does not look at what removeDocument returns
RemoveFileReturn ==
    /\ ret.op = "removeDocument"
    /\ Return
    /\ UNCHANGED app

\* the page as loaded: the keys are read from the environment once
InitApp ==
    /\ apiKey \in BOOLEAN
    /\ remoteDims \in {Dimensions, AltDimensions}
    /\ (~apiKey => remoteDims = Dimensions)
    /\ documents = EmptyMap
    /\ chunks = EmptyMap
    /\ embeddings = EmptyMap
    /\ arrays = [r \in Refs |-> <<>>]
    /\ index = 1
    /\ exported = NoExport
    /\ snapshot = NoExport
    /\ adds = {}
    /\ searches = {}
    /\ ret = NoRet
    /\ ops = 0
    /\ chunker = NoChunker
    /\ \E llmConfigured \in BOOLEAN :
         app = [NoApp EXCEPT !.llmConfigured = llmConfigured]
    /\ calls = NoCalls
    /\ backend = NoBackend

\* the store as App.jsx drives it
NextApp ==
    \/ \E file \in AppFiles : ProcessNewFilesCall(file[1], file[2])
    \/ (\E task \in adds : AddDocumentResume(task)) /\ UNCHANGED app
    \/ ProcessNewFilesResume
    \/ ProcessNewFilesDone
    \/ \E fileId \in FileIds : RemoveFile(fileId)
    \/ RemoveFileReturn
    \/ \E userInput \in ChatQuestions : HandleChatMessageCall(userInput)
    \/ (\E task \in searches : SearchResume(task, ChatTopK)) /\ UNCHANGED app
    \/ HandleChatMessageSearched
    \/ \E generated \in BOOLEAN : HandleChatMessageAnswered(generated)
    \/ HandleChatMessageReturn

SpecApp == InitApp /\ [][NextApp]_vars

-----------------------------------------------------------------------------
(* App.jsx: the upload list.  handleDrop appends the dropped files to      *)
(* files and calls processNewFiles with them; processNewFiles loops over   *)
(* its argument with the processedFiles of the render it was created in;   *)
(* removeFile takes a file out of the list by its position.                *)

\* the longest upload list followed
MaxFiles == 3

\* the lists of file names dropped at once
DropLists == { <<"d1">>, <<"d1", "d1">>, <<"d1", "d2">> }

\* what chunkText(text, 800, 100) makes of the text of the file of that name
FileChunks(name) == IF name = "d1" THEN <<TxtA>> ELSE <<TxtA, TxtB>>

\* the list without the element at position at, from 1
Without(files, at) ==
    [j \in 1..(Len(files) - 1) |-> IF j < at THEN files[j] ELSE files[j + 1]]

\* handleDrop up to the loop of processNewFiles: setFiles, and with no API
\* key the error and the return
HandleDrop(d, droppedFiles) ==
    /\ app.drops[d].pc = "idle"
    /\ Len(app.files) + Len(droppedFiles) <= MaxFiles
    /\ app' = [app EXCEPT
                 !.files = @ \o droppedFiles,
                 !.error = IF apiKey THEN "null" ELSE "configure",
                 !.drops[d] =
                    IF apiKey
                    THEN [pc |-> "loop", files |-> droppedFiles,
                          processedFiles |-> app.processedFiles,
                          i |-> 1, call |-> -1]
                    ELSE NoDrop]
    /\ UNCHANGED <<backend, storeVars, chunker, calls>>

\* one iteration of the for loop of processNewFiles up to `await
\* vectorStore.addDocument`, or the end of the loop
ProcessNewFilesLoop(d) ==
    LET drop == app.drops[d]
    IN  /\ drop.pc = "loop"
        /\ IF drop.i > Len(drop.files)
           THEN /\ app' = [app EXCEPT !.drops[d] = NoDrop]
                /\ UNCHANGED <<backend, storeVars, chunker, calls>>
           ELSE IF drop.files[drop.i] \in drop.processedFiles
           THEN /\ app' = [app EXCEPT !.drops[d].i = drop.i + 1]
                /\ UNCHANGED <<backend, storeVars, chunker, calls>>
           ELSE /\ AddDocumentCall(drop.files[drop.i], FileChunks(drop.files[drop.i]))
                /\ app' = [app EXCEPT !.drops[d].pc = "adding",
                                      !.drops[d].call = ops]

\* addDocument settles and processNewFiles goes on: setProcessedFiles and
\* the next iteration, or the catch and the end of the call
ProcessNewFilesSettled(d) ==
    LET drop == app.drops[d]
    IN  /\ drop.pc = "adding"
        /\ \E task \in adds :
             /\ task.call = drop.call
             /\ AddDocumentResume(task)
        /\ app' = IF ret'.status = "ok"
                  THEN [app EXCEPT !.processedFiles = @ \cup {drop.files[drop.i]},
                                   !.drops[d].pc = "loop",
                                   !.drops[d].i = drop.i + 1]
                  ELSE [app EXCEPT !.error = "processing", !.drops[d] = NoDrop]

\* removeFile(index): the store is told only when processedFiles has the
\* name; the file leaves the list in any case
RemoveFileAt(at) ==
    /\ at \in 1..Len(app.files)
    /\ LET name == app.files[at]
       IN  IF name \in app.processedFiles
           THEN /\ RemoveDocument(name)
                /\ app' = [app EXCEPT !.processedFiles = @ \ {name},
                                      !.files = Without(@, at)]
           ELSE /\ ret = NoRet
                /\ app' = [app EXCEPT !.files = Without(@, at)]
                /\ UNCHANGED <<backend, storeVars, chunker, calls>>

NextUpload ==
    \/ \E d \in Uploaders, droppedFiles \in DropLists : HandleDrop(d, droppedFiles)
    \/ \E d \in Uploaders : ProcessNewFilesLoop(d)
    \/ \E d \in Uploaders : ProcessNewFilesSettled(d)
    \/ \E at \in 1..MaxFiles : RemoveFileAt(at)
    \/ (Return) /\ UNCHANGED app

SpecUpload == InitApp /\ [][NextUpload]_vars

-----------------------------------------------------------------------------
(* The Express server: POST /api/upload saves an analysis record under a   *)
(* fresh id, POST /api/chat looks the record up and hands its              *)
(* extractedText to GeminiAIService.chatWithDocument, which builds its     *)
(* vector store from that text.                                            *)

\* the uploads followed
MaxUploads == 2

\* extractedText.substring(0, 1000)
PreviewLen == 1000
Ellipsis == <<Dot, Dot, Dot>>

\* String.prototype.substring(start, end) for 0 <= start <= end
Substring(s, start, end) == SubSeq(s, Min(start, Len(s)) + 1, Min(end, Len(s)))

\* what fileParser.parseFile returns: nothing, a blank, and texts below, at
\* and above the length of the preview
Letters(n) == [i \in 1..n |-> 97]
UploadTexts == { <<>>, <<SP>>, Letters(1), Letters(PreviewLen), Letters(PreviewLen + 1) }

\* uuidv4(): the id of the n-th upload
Uuid(n) == <<"uuid", n>>
DocumentIds == { Uuid(n) : n \in 1..(MaxUploads + 1) }

\* POST /api/upload up to the id storageService.uploadFile returns: the
\* file is validated and parsed, a file without text is refused
PostUploadCall(valid, extractedText) ==
    /\ backend.upload.pc = "idle"
    /\ backend.uploads < MaxUploads
    /\ IF ~valid \/ Len(extractedText) = 0 \/ Len(Trim(extractedText)) = 0
       THEN backend' = [backend EXCEPT
                          !.upload = [NoUpload EXCEPT !.pc = "responded",
                                                      !.status = 400]]
       ELSE backend' = [backend EXCEPT
                          !.uploads = @ + 1,
                          !.upload = [NoUpload EXCEPT
                                        !.pc = "stored",
                                        !.extractedText = extractedText,
                                        !.fileId = Uuid(backend.uploads + 1)]]
    /\ UNCHANGED <<storeVars, chunker, app, calls>>

\* POST /api/upload from aiService.analyzeDocument on: the result record is
\* built and saved; saveAnalysis sets its map before it writes to the bucket
PostUploadSave(analysed, saved) ==
    /\ backend.upload.pc = "stored"
    /\ LET fileId == backend.upload.fileId
           extractedText == backend.upload.extractedText
           result == [id |-> fileId,
                      extractedText |->
                         Substring(extractedText, 0, PreviewLen) \o Ellipsis]
       IN  IF ~analysed
           THEN backend' = [backend EXCEPT !.upload.pc = "responded",
                                           !.upload.status = 500]
           ELSE backend' = [backend EXCEPT
                              !.analyses = Put(@, fileId, result),
                              !.parsed = Put(@, fileId, extractedText),
                              !.upload.pc = "responded",
                              !.upload.status = IF saved THEN 200 ELSE 500]
    /\ UNCHANGED <<storeVars, chunker, app, calls>>

\* the response of POST /api/upload has been sent
PostUploadRespond ==
    /\ backend.upload.pc = "responded"
    /\ backend' = [backend EXCEPT !.upload = NoUpload]
    /\ UNCHANGED <<storeVars, chunker, app, calls>>

\* POST /api/chat up to `await aiService.chatWithDocument`: the message is
\* sanitised and the analysis looked up
PostChatCall(documentId, valid) ==
    /\ backend.chat.pc = "idle"
    /\ backend' = [backend EXCEPT !.chat =
         IF ~valid
         THEN [NoBackendChat EXCEPT !.pc = "responded", !.status = 400,
                                    !.documentId = documentId]
         ELSE IF documentId \notin DOMAIN backend.analyses
         THEN [NoBackendChat EXCEPT !.pc = "responded", !.status = 404,
                                    !.documentId = documentId]
         ELSE [NoBackendChat EXCEPT
                 !.pc = "found", !.documentId = documentId,
                 !.documentText = backend.analyses[documentId].extractedText]]
    /\ UNCHANGED <<storeVars, chunker, app, calls>>

\* chatWithDocument(documentText, ...): createVectorStore(documentText)
\* splits and indexes the text it is given, then the model is asked
PostChatAnswer(answered) ==
    /\ backend.chat.pc = "found"
    /\ backend' = [backend EXCEPT
                     !.chat.pc = "responded",
                     !.chat.indexed = TRUE,
                     !.chat.status = IF answered THEN 200 ELSE 500]
    /\ UNCHANGED <<storeVars, chunker, app, calls>>

\* the response of POST /api/chat has been sent
PostChatRespond ==
    /\ backend.chat.pc = "responded"
    /\ backend' = [backend EXCEPT !.chat = NoBackendChat]
    /\ UNCHANGED <<storeVars, chunker, app, calls>>

\* the server started, the page untouched
InitBackend ==
    /\ apiKey = FALSE
    /\ remoteDims = Dimensions
    /\ documents = EmptyMap
    /\ chunks = EmptyMap
    /\ embeddings = EmptyMap
    /\ arrays = [r \in Refs |-> <<>>]
    /\ index = 1
    /\ exported = NoExport
    /\ snapshot = NoExport
    /\ adds = {}
    /\ searches = {}
    /\ ret = NoRet
    /\ ops = 0
    /\ chunker = NoChunker
    /\ app = NoApp
    /\ calls = NoCalls
    /\ backend = NoBackend

NextBackend ==
    \/ \E valid \in BOOLEAN, extractedText \in UploadTexts :
         PostUploadCall(valid, extractedText)
    \/ \E analysed, saved \in BOOLEAN : PostUploadSave(analysed, saved)
    \/ PostUploadRespond
    \/ \E documentId \in DocumentIds, valid \in BOOLEAN :
         PostChatCall(documentId, valid)
    \/ \E answered \in BOOLEAN : PostChatAnswer(answered)
    \/ PostChatRespond

SpecBackend == InitBackend /\ [][NextBackend]_vars

-----------------------------------------------------------------------------
(* embeddingService.js: cosineSimilarity in IEEE 754 double precision.     *)
(* The sums of the loop are small integers and exact; Math.sqrt, * and /   *)
(* each round to the nearest double, ties to even.  A positive double is   *)
(* [m, e] with value m * 2^e and 2^52 <= m < 2^53; m and the integers      *)
(* it is compared with are kept as limbs in base 2^14, least one first.    *)

Base == 2^14

Limb(a, i) == IF i <= Len(a) THEN a[i] ELSE 0

\* the limbs of the number whose column sums are cols, plus carry
RECURSIVE Carry(_, _)
Carry(cols, carry) ==
    IF cols = <<>>
    THEN IF carry = 0 THEN <<>> ELSE <<carry % Base>> \o Carry(<<>>, carry \div Base)
    ELSE <<(Head(cols) + carry) % Base>>
           \o Carry(Tail(cols), (Head(cols) + carry) \div Base)

RECURSIVE ColSum(_, _, _, _)
ColSum(a, b, k, i) ==
    IF i > Len(a) \/ i > k THEN 0
    ELSE Limb(a, i) * Limb(b, k - i + 1) + ColSum(a, b, k, i + 1)

\* a * b
Mul(a, b) ==
    IF Len(a) = 0 \/ Len(b) = 0 THEN <<>>
    ELSE Carry([k \in 1..(Len(a) + Len(b) - 1) |-> ColSum(a, b, k, 1)], 0)

\* the sign of a - b, from limb i down
RECURSIVE CmpFrom(_, _, _)
CmpFrom(a, b, i) ==
    IF i = 0 THEN 0
    ELSE IF Limb(a, i) # Limb(b, i) THEN Sign(Limb(a, i) - Limb(b, i))
    ELSE CmpFrom(a, b, i - 1)

Cmp(a, b) == CmpFrom(a, b, Max(Len(a), Len(b)))

\* 2^k
Pow2(k) == [i \in 1..(k \div 14 + 1) |-> IF i = k \div 14 + 1 THEN 2^(k % 14) ELSE 0]

\* a small integer n >= 0
Small(n) == Carry(<<n>>, 0)

\* a with bit k set, which it was not
SetBit(a, k) == [a EXCEPT ![k \div 14 + 1] = @ + 2^(k % 14)]

\* a target is the number n / a, or the square root of n; x is at most the
\* target when x * a <= n, or x * x <= n
AtMost(target, x) ==
    Cmp(Mul(x, IF target.sqrt THEN x ELSE target.a), target.n) <= 0

Exactly(target, x) ==
    Cmp(Mul(x, IF target.sqrt THEN x ELSE target.a), target.n) = 0

\* the largest integer at most the target that has the bits of x and bits
\* from k down
RECURSIVE Search(_, _, _)
Search(target, x, k) ==
    IF k < 0 THEN x
    ELSE IF AtMost(target, SetBit(x, k))
         THEN Search(target, SetBit(x, k), k - 1)
         ELSE Search(target, x, k - 1)

\* a \div 2
Halve(a) == [i \in 1..Len(a) |-> (a[i] \div 2) + (Limb(a, i + 1) % 2) * (Base \div 2)]

\* The double nearest to the target scaled by 2^e: x, of 54 bits, is the
\* floor of twice the scaled target.  An odd x lies at or above the middle
\* between two doubles; exactly in the middle the even neighbour is taken.
Nearest(target, e) ==
    LET x == Search(target, <<0, 0, 0, 0>>, 53)
        down == Halve(x)
        up == Carry(down, 1)
        m == IF x[1] % 2 = 0 THEN down
             ELSE IF Exactly(target, x) /\ down[1] % 2 = 0 THEN down
             ELSE up
    IN  IF Cmp(m, Pow2(53)) = 0 THEN [m |-> Pow2(52), e |-> e + 1]
        ELSE [m |-> m, e |-> e]

\* j with 4^j <= n < 4^(j+1)
RECURSIVE Log4(_)
Log4(n) == IF n < 4 THEN 0 ELSE 1 + Log4(n \div 4)

\* Math.sqrt(n) for an integer n >= 1: twice the root scaled by 2^(52-j)
\* is the root of n * 2^(106-2j)
SqrtD(n) ==
    Nearest([sqrt |-> TRUE, a |-> <<>>,
             n |-> Mul(Small(n), Pow2(106 - 2 * Log4(n)))],
            Log4(n) - 52)

\* a * b for two doubles: the product of the mantissas has 105 or 106 bits
MulD(a, b) ==
    LET p == Mul(a.m, b.m)
        sh == IF Cmp(p, Pow2(105)) < 0 THEN 52 ELSE 53
    IN  Nearest([sqrt |-> FALSE, a |-> Pow2(sh - 1), n |-> p], a.e + b.e + sh)

\* d / b for an integer d >= 1 and a double b
DivD(d, b) ==
    LET t == CHOOSE t \in 96..110 :
               /\ Cmp(Mul(Pow2(53), b.m), Mul(Small(d), Pow2(t))) <= 0
               /\ Cmp(Mul(Small(d), Pow2(t)), Mul(Pow2(54), b.m)) < 0
    IN  Nearest([sqrt |-> FALSE, a |-> b.m, n |-> Mul(Small(d), Pow2(t))],
                1 - t - b.e)

\* the sign of a - b for two positive doubles
CmpD(a, b) == IF a.e # b.e THEN Sign(a.e - b.e) ELSE Cmp(a.m, b.m)

OneD == [m |-> Pow2(52), e |-> -52]

Abs(x) == IF x < 0 THEN -x ELSE x

ZeroD == [m |-> <<>>, e |-> 0]

-----------------------------------------------------------------------------
(* embeddingService.js: the embedding functions called one after another *)

\* the texts generateSimpleEmbedding is called with: "a", "b", " a", ""
EmbedTexts == { <<97>>, <<98>>, <<SP, 97>>, <<>> }

\* the texts generateEmbedding is called with
SingleTexts == { TxtA, TxtSpA }

\* the arrays generateBatchEmbeddings is called with
BatchTexts == { <<t>> : t \in SingleTexts }

\* a call returned result: it is the last call, and the first result of a
\* function for an argument is kept
Called(fn, arg, result, hash) ==
    [seen |-> IF <<fn, arg>> \in DOMAIN calls.seen THEN calls.seen
              ELSE Put(calls.seen, <<fn, arg>>, result),
     hash |-> hash,
     last |-> [fn |-> fn, args |-> <<arg>>, result |-> result]]

InitEmbed ==
    /\ apiKey \in BOOLEAN
    /\ remoteDims = Dimensions
    /\ documents = EmptyMap
    /\ chunks = EmptyMap
    /\ embeddings = EmptyMap
    /\ arrays = [r \in Refs |-> <<>>]
    /\ index = 1
    /\ exported = NoExport
    /\ snapshot = NoExport
    /\ adds = {}
    /\ searches = {}
    /\ ret = NoRet
    /\ ops = 0
    /\ chunker = NoChunker
    /\ app = NoApp
    /\ calls = NoCalls
    /\ backend = NoBackend

\* generateSimpleEmbedding(text)
GenerateSimpleEmbeddingCall(text) ==
    /\ calls' = Called("generateSimpleEmbedding", text,
                       generateSimpleEmbedding(text), HashFrom(<<0, 0>>, text))
    /\ UNCHANGED <<backend, storeVars, chunker, app>>

\* await generateEmbedding(text)
GenerateEmbeddingCall(text) ==
    /\ \E outcome \in generateEmbedding(text) :
         calls' = Called("generateEmbedding", text, outcome, calls.hash)
    /\ UNCHANGED <<backend, storeVars, chunker, app>>

\* await generateBatchEmbeddings(texts)
GenerateBatchEmbeddingsCall(texts) ==
    /\ \E outcome \in generateBatchEmbeddings(texts) :
         calls' = Called("generateBatchEmbeddings", texts, outcome, calls.hash)
    /\ UNCHANGED <<backend, storeVars, chunker, app>>

NextEmbed ==
    \/ \E text \in EmbedTexts : GenerateSimpleEmbeddingCall(text)
    \/ \E text \in SingleTexts : GenerateEmbeddingCall(text)
    \/ \E texts \in BatchTexts : GenerateBatchEmbeddingsCall(texts)

SpecEmbed == InitEmbed /\ [][NextEmbed]_vars

\* the length of the vectors cosineSimilarity is called with
CosineLen == 3

\* the vectors cosineSimilarity is called with
CosineVectors == { [len |-> CosineLen, comp |-> c] : c \in [1..CosineLen -> {-1, 0, 1}] }

InitCosine == InitEmbed /\ ~apiKey

\* cosineSimilarity(vecA, vecB) up to the end of its loop: the length
\* check and the three sums, which are integers
CosineSimilarityCall(vecA, vecB) ==
    /\ calls.last = NoCall
    /\ calls' = [calls EXCEPT !.last =
         [fn |-> "cosineSimilarity", args |-> <<vecA, vecB>>,
          result |->
            [pc |-> IF vecA.len # vecB.len THEN "done" ELSE "sqrtA",
             threw |-> vecA.len # vecB.len,
             dotProduct |-> DotFrom(vecA.comp, vecB.comp, 1),
             sumA |-> DotFrom(vecA.comp, vecA.comp, 1),
             sumB |-> DotFrom(vecB.comp, vecB.comp, 1),
             normA |-> ZeroD, normB |-> ZeroD, product |-> ZeroD,
             sgn |-> 0, abs |-> ZeroD]]]
    /\ UNCHANGED <<backend, storeVars, chunker, app>>

\* normA = Math.sqrt(normA)
CosineSimilaritySqrtA ==
    /\ calls.last.fn = "cosineSimilarity"
    /\ calls.last.result.pc = "sqrtA"
    /\ calls' = [calls EXCEPT
                   !.last.result.pc = "sqrtB",
                   !.last.result.normA =
                      IF calls.last.result.sumA = 0 THEN ZeroD
                      ELSE SqrtD(calls.last.result.sumA)]
    /\ UNCHANGED <<backend, storeVars, chunker, app>>

\* normB = Math.sqrt(normB)
CosineSimilaritySqrtB ==
    /\ calls.last.fn = "cosineSimilarity"
    /\ calls.last.result.pc = "sqrtB"
    /\ calls' = [calls EXCEPT
                   !.last.result.pc = "norms",
                   !.last.result.normB =
                      IF calls.last.result.sumB = 0 THEN ZeroD
                      ELSE SqrtD(calls.last.result.sumB)]
    /\ UNCHANGED <<backend, storeVars, chunker, app>>

\* if (normA === 0 || normB === 0) return 0, else normA * normB
CosineSimilarityNorms ==
    /\ calls.last.fn = "cosineSimilarity"
    /\ calls.last.result.pc = "norms"
    /\ LET r == calls.last.result
       IN  IF r.normA = ZeroD \/ r.normB = ZeroD
           THEN calls' = [calls EXCEPT !.last.result.pc = "done"]
           ELSE calls' = [calls EXCEPT
                            !.last.result.pc = "divide",
                            !.last.result.product = MulD(r.normA, r.normB)]
    /\ UNCHANGED <<backend, storeVars, chunker, app>>

\* return dotProduct / (normA * normB)
CosineSimilarityDivide ==
    /\ calls.last.fn = "cosineSimilarity"
    /\ calls.last.result.pc = "divide"
    /\ LET r == calls.last.result
       IN  IF r.dotProduct = 0
           THEN calls' = [calls EXCEPT !.last.result.pc = "done"]
           ELSE calls' = [calls EXCEPT
                            !.last.result.pc = "done",
                            !.last.result.sgn = Sign(r.dotProduct),
                            !.last.result.abs = DivD(Abs(r.dotProduct), r.product)]
    /\ UNCHANGED <<backend, storeVars, chunker, app>>

\* the caller has taken the value
CosineSimilarityReturn ==
    /\ calls.last.fn = "cosineSimilarity"
    /\ calls.last.result.pc = "done"
    /\ calls' = [calls EXCEPT !.last = NoCall]
    /\ UNCHANGED <<backend, storeVars, chunker, app>>

NextCosine ==
    \/ \E vecA, vecB \in CosineVectors : CosineSimilarityCall(vecA, vecB)
    \/ CosineSimilaritySqrtA
    \/ CosineSimilaritySqrtB
    \/ CosineSimilarityNorms
    \/ CosineSimilarityDivide
    \/ CosineSimilarityReturn

SpecCosine == InitCosine /\ [][NextCosine]_vars

-----------------------------------------------------------------------------
(* chunkText as a process: one action per loop iteration *)

\* a chunkText(text, maxChunkSize, overlap) call about to run
InitChunk ==
    /\ apiKey = FALSE
    /\ remoteDims = Dimensions
    /\ documents = EmptyMap
    /\ chunks = EmptyMap
    /\ embeddings = EmptyMap
    /\ arrays = [r \in Refs |-> <<>>]
    /\ index = 1
    /\ exported = NoExport
    /\ snapshot = NoExport
    /\ adds = {}
    /\ searches = {}
    /\ ret = NoRet
    /\ ops = 0
    /\ app = NoApp
    /\ calls = NoCalls
    /\ backend = NoBackend
    /\ \E text \in ChunkTexts, maxChunkSize \in ChunkSizes, overlap \in Overlaps :
         chunker = [NoChunker EXCEPT !.pc = "call", !.text = text,
                                     !.maxChunkSize = maxChunkSize,
                                     !.overlap = overlap]

\* chunkText up to the loop: an empty text or one that fits is returned as
\* the only chunk, as it is
ChunkTextCall ==
    /\ chunker.pc = "call"
    /\ IF Len(chunker.text) = 0 \/ Len(chunker.text) <= chunker.maxChunkSize
       THEN chunker' =
              [chunker EXCEPT
                 !.pc = "done",
                 !.result = << [start |-> 0, end |-> Len(chunker.text),
                                moved |-> FALSE, lo |-> 0,
                                hi |-> Len(chunker.text), s |-> chunker.text] >>]
       ELSE chunker' = [chunker EXCEPT !.pc = "loop", !.start = 0]
    /\ UNCHANGED <<backend, storeVars, app, calls>>

\* one iteration of the while loop; the loop is left by the break or by the
\* loop condition, which test the same thing, and the chunks that are not
\* empty are returned
ChunkTextStep ==
    /\ chunker.pc = "loop"
    /\ Len(chunker.chunks) < MaxIter
    /\ LET end == WindowEnd(chunker.text, chunker.maxChunkSize, chunker.start)
           pushed == Append(chunker.chunks,
                            Piece(chunker.text, chunker.maxChunkSize,
                                  chunker.start, end))
           start == end - chunker.overlap
       IN  IF start >= Len(chunker.text)
           THEN chunker' =
                  [chunker EXCEPT
                     !.pc = "done", !.start = start, !.chunks = pushed,
                     !.result = SelectSeq(pushed, LAMBDA c : Len(c.s) > 0)]
           ELSE chunker' = [chunker EXCEPT !.start = start, !.chunks = pushed]
    /\ UNCHANGED <<backend, storeVars, app, calls>>

NextChunk ==
    \/ ChunkTextCall
    \/ ChunkTextStep

SpecChunk == InitChunk /\ [][NextChunk]_vars

-----------------------------------------------------------------------------
(* Properties *)

Range(seq) == { seq[i] : i \in 1..Len(seq) }
IndexChunkIds(idx) == { idx[i].chunkId : i \in 1..Len(idx) }
IsString(v) == v.t = "str"
Blank(v) == Len(Trim(v.s)) = 0

\* The index consistency invariant of the store S
Consistent(S) ==
    /\ \A i, j \in 1..Len(S.idx) : i # j => S.idx[i].chunkId # S.idx[j].chunkId
    /\ \A i \in 1..Len(S.idx) :
         /\ S.idx[i].fileId \in DOMAIN S.documents
         /\ Cardinality({ d \in DOMAIN S.documents :
                            S.idx[i].chunkId \in Range(S.documents[d].chunkIds) }) = 1
    /\ \A d \in DOMAIN S.documents :
         Range(S.documents[d].chunkIds) \subseteq IndexChunkIds(S.idx)
    /\ DOMAIN S.chunks = IndexChunkIds(S.idx)
    /\ DOMAIN S.embeddings = IndexChunkIds(S.idx)
    /\ \A c \in DOMAIN S.chunks : S.chunks[c].fileId \in DOMAIN S.documents

\* C1: after any sequence of addDocument, removeDocument and clear calls
\* (re-adding a registered id included) documents, chunks, embeddings and
\* index agree: each index chunkId occurs once in the index and in exactly
\* one registered document's chunkIds, and chunks and embeddings have
\* exactly those keys.
C1_IndexConsistent == Consistent(Cur)

\* C2: every result a search returns carries a defined chunk and a defined
\* owning document, also when removeDocument or clear ran while the search
\* was suspended.
C2_ResultsDefined ==
    (ret.op = "search" /\ ret.status = "ok") =>
        \A i \in 1..Len(ret.results) :
            ret.results[i].chunkDefined /\ ret.results[i].documentDefined

\* the vectors that are an embedding of the string v
EmbeddingsOf(v) ==
    { generateSimpleEmbedding(v.s), generateSimpleEmbedding(Trim(v.s)) }
        \cup (IF apiKey THEN RemoteVectors ELSE {})

\* C3: for every list of texts, generateBatchEmbeddings returns one vector
\* per text, in input order, so addDocument stores for chunk i a defined
\* embedding computed from textChunks[i]; lists with empty or blank
\* elements included.
C3_OneVectorPerText ==
    (/\ ret.op = "addDocument"
     /\ ret.stage = "register"
     /\ \A i \in 1..Len(ret.texts) : IsString(ret.texts[i])) =>
        /\ Len(ret.batch) = Len(ret.texts)
        /\ \A i \in 1..Len(ret.texts) :
             LET c == ChunkId(ret.fileId, i - 1)
             IN  /\ c \in DOMAIN embeddings
                 /\ ~IsUndefined(embeddings[c])
                 /\ ~Blank(ret.texts[i]) => embeddings[c] \in EmbeddingsOf(ret.texts[i])

\* C4: when the batch-embedding step of addDocument fails, addDocument
\* rejects and documents, chunks, embeddings and index are as before.
C4_FailedEmbeddingAddsNothing ==
    [][(ret'.op = "addDocument" /\ ret'.stage = "embedding") =>
          (ret'.status = "error" /\ store' = store)]_vars

C4_Witness ==
    /\ ret.op = "addDocument"
    /\ ret.stage = "embedding"
    /\ ret.status = "error"
    /\ DOMAIN documents # {}

\* the entries of the index that belong to document d
EntriesOf(idx, d) == SelectSeq(idx, LAMBDA item : item.fileId = d)

\* C5: a document present in documents is never partially ingested: its
\* chunkIds has totalChunks entries, in chunk-index order, and every one of
\* them has its chunk, its embedding and its index entry.
C5_NoPartialDocument ==
    \A d \in DOMAIN documents :
        LET ids == documents[d].chunkIds
            entries == EntriesOf(arrays[index], d)
        IN  /\ Len(ids) = documents[d].totalChunks
            /\ \A i \in 1..Len(ids) :
                 /\ ids[i] = ChunkId(d, i - 1)
                 /\ ids[i] \in DOMAIN chunks
                 /\ ids[i] \in DOMAIN embeddings
                 /\ ~IsUndefined(embeddings[ids[i]])
            /\ Len(entries) >= Len(ids)
            /\ \A i \in 1..Len(ids) :
                 entries[Len(entries) - Len(ids) + i].chunkId = ids[i]

\* C6: once removeDocument(id) has returned nothing of id remains: no
\* document id, no chunk or embedding of a chunk of id, no index entry of id.
C6_NothingRemains ==
    ret.op = "removeDocument" =>
        /\ ret.fileId \notin DOMAIN documents
        /\ \A c \in DOMAIN chunks : chunks[c].fileId # ret.fileId
        /\ \A c \in DOMAIN embeddings : c[1] # ret.fileId
        /\ \A i \in 1..Len(arrays[index]) : arrays[index][i].fileId # ret.fileId

\* the similarity of candidate k (0-based) of the search that returned
CandSim(k) == cosineSimilarity(ret.queryEmbedding, ret.cands[k + 1].embedding)

\* C7: for a query that is embedded and topK >= 1, the list search returns
\* has min(topK, number of candidates) entries, they are the candidates
\* most similar to the query, in descending similarity, equal similarities
\* in insertion order.
C7_TopKRanking ==
    (ret.op = "search" /\ ret.stage = "ranked") =>
        LET rs == ret.results
            n == Len(ret.cands)
            returned == { rs[i].index : i \in 1..Len(rs) }
        IN  /\ Len(rs) = Min(ret.topK, n)
            /\ Cardinality(returned) = Len(rs)
            /\ \A i \in 1..Len(rs) :
                 /\ rs[i].index \in 0..(n - 1)
                 /\ rs[i].chunkId = ret.cands[rs[i].index + 1].chunkId
                 /\ rs[i].similarity = CandSim(rs[i].index)
            /\ \A i, j \in 1..Len(rs) :
                 i < j =>
                    \/ SimCmp(rs[i].similarity, rs[j].similarity) > 0
                    \/ /\ SimCmp(rs[i].similarity, rs[j].similarity) = 0
                       /\ rs[i].index < rs[j].index
            /\ \A k \in (0..(n - 1)) \ returned :
                 \A i \in 1..Len(rs) : SimCmp(CandSim(k), rs[i].similarity) <= 0

\* a search that left a candidate out, returned two equally similar chunks
\* and moved a chunk in front of a less similar one inserted before it
C7_Witness ==
    /\ ret.op = "search"
    /\ ret.stage = "ranked"
    /\ Len(ret.results) >= 2
    /\ Len(ret.cands) > Len(ret.results)
    /\ SimCmp(ret.results[1].similarity, ret.results[2].similarity) = 0
    /\ \E k \in 0..(Len(ret.cands) - 1) :
         /\ k < ret.results[2].index
         /\ SimCmp(CandSim(k), ret.results[2].similarity) < 0

\* C8: the record export returned is a snapshot: later addDocument,
\* removeDocument and clear calls do not change it, and import of it yields
\* the documents, chunks, embeddings and index of the moment of export, a
\* consistent store.
C8_ExportIsSnapshot ==
    /\ exported.valid =>
         /\ exported.documents = snapshot.documents
         /\ exported.chunks = snapshot.chunks
         /\ exported.embeddings = snapshot.embeddings
         /\ arrays[exported.index] = snapshot.index
    /\ ret.op = "import" =>
         /\ Cur = [documents |-> snapshot.documents, chunks |-> snapshot.chunks,
                   embeddings |-> snapshot.embeddings, idx |-> snapshot.index]
         /\ Consistent(Cur)

\* C9: all embeddings stored in one store have the declared length 384: an
\* ingestion that would mix in vectors of another length is rejected.
C9_UniformDimension ==
    /\ \A c \in DOMAIN embeddings :
         ~IsUndefined(embeddings[c]) => embeddings[c].len = Dimensions
    /\ \A i \in 1..Len(arrays[index]) :
         ~IsUndefined(arrays[index][i].embedding) =>
             arrays[index][i].embedding.len = Dimensions

\* the search that completed compared the query vector with an indexed
\* vector of another length
Mismatch(r) ==
    /\ r.op = "search"
    /\ r.stage \in {"ranked", "similarity"}
    /\ \E i \in 1..Len(r.cands) :
         /\ ~IsUndefined(r.cands[i].embedding)
         /\ r.cands[i].embedding.len # r.queryEmbedding.len

\* C10: a search whose query vector differs in length from an indexed
\* vector in its scope fails with an error, returns no result list and
\* leaves documents, chunks, embeddings and index unchanged.
C10_DimensionMismatchFails ==
    [][Mismatch(ret') =>
          (ret'.status = "error" /\ ret'.results = <<>> /\ store' = store)]_vars

C10_Witness ==
    /\ Mismatch(ret)
    /\ ret.status = "error"
    /\ \E i \in 1..Len(ret.cands) : ret.cands[i].embedding.len = ret.queryEmbedding.len

\* C11: chunkText terminates for every text, maxChunkSize > 0 and
\* overlap >= 0, overlap >= maxChunkSize included: the window end strictly
\* increases from each loop iteration to the next.
C11_EndIncreases ==
    \A i \in 1..(Len(chunker.chunks) - 1) :
        chunker.chunks[i + 1].end > chunker.chunks[i].end

\* C12: every chunk chunkText returns for a text longer than maxChunkSize
\* has at most maxChunkSize characters, whichever break point is chosen.
C12_ChunkFits ==
    (chunker.pc = "done" /\ Len(chunker.text) > chunker.maxChunkSize) =>
        \A i \in 1..Len(chunker.result) :
            Len(chunker.result[i].s) <= chunker.maxChunkSize

\* C13: for 0 <= overlap < maxChunkSize the returned chunks cover the text
\* without gaps: every character position lies in a returned chunk.
C13_NoGaps ==
    (chunker.pc = "done" /\ chunker.overlap < chunker.maxChunkSize) =>
        \A p \in 0..(Len(chunker.text) - 1) :
            \E i \in 1..Len(chunker.result) :
                chunker.result[i].lo <= p /\ p < chunker.result[i].hi

\* C14: for 0 <= overlap < maxChunkSize two consecutive returned chunks
\* share between 0 and overlap characters, the tail of the earlier being
\* the head of the later, and exactly overlap characters when the break
\* point search did not move the cut of the earlier chunk.
C14_SharedOverlap ==
    (chunker.pc = "done" /\ chunker.overlap < chunker.maxChunkSize) =>
        \A i \in 1..(Len(chunker.result) - 1) :
            LET a == chunker.result[i]
                b == chunker.result[i + 1]
                k == a.hi - b.lo
            IN  /\ 0 <= k
                /\ k <= chunker.overlap
                /\ k <= Len(a.s)
                /\ k <= Len(b.s)
                /\ SubSeq(a.s, Len(a.s) - k + 1, Len(a.s)) = SubSeq(b.s, 1, k)
                /\ ~a.moved => k = chunker.overlap

\* the rightmost period, newline or space at or before position end of the
\* text (0-based), or -1
Rightmost(text, end) ==
    LET found == { p \in 0..Min(end, Len(text) - 1) : text[p + 1] \in {Dot, NL, SP} }
    IN  IF found = {} THEN -1 ELSE CHOOSE p \in found : \A q \in found : q <= p

C26_StartIncreases ==
    (chunker.overlap < chunker.maxChunkSize) =>
        /\ \A i \in 1..(Len(chunker.chunks) - 1) :
              chunker.chunks[i + 1].start > chunker.chunks[i].start
        /\ Len(chunker.chunks) > 0 =>
              chunker.start > chunker.chunks[Len(chunker.chunks)].start

\* C24: every question that is not empty and is asked while the store holds
\* at least one document is answered after a search of the vector store:
\* handleChatMessage calls vectorStore.search before it decides on a reply,
\* the greeting, date and time shortcuts included.
C24_RetrievalBeforeReply ==
    [][(/\ app.chat.pc = "idle"
        /\ app'.chat.pc # "idle"
        /\ Len(app'.chat.question) > 0
        /\ Stats(Cur)[1] > 0) =>
          app'.chat.pc = "searching"]_vars

\* C25: when addDocument throws, at whatever point, the store is as it
\* was before the call: no document entry, chunk, embedding or index entry
\* of the failed call is left.
C25_FailedAddLeavesNothing ==
    [][(ret' # ret /\ ret'.op = "addDocument" /\ ret'.status = "error") =>
          /\ store' = store
          /\ ret'.fileId \in DOMAIN documents' => ret'.fileId \in DOMAIN documents
          /\ \A c \in DOMAIN chunks' \ DOMAIN chunks : chunks'[c].fileId # ret'.fileId]_vars

\* C28: processNewFiles calls vectorStore.addDocument at most once for a
\* file name while that name is ingested: it never calls it for a name the
\* store holds a document of, nor for a name whose addDocument call is
\* still in progress.
C28_AddOncePerName ==
    [][\A task \in adds' \ adds :
          /\ task.fileId \notin DOMAIN documents
          /\ \A other \in adds : other.fileId # task.fileId]_vars

\* no processNewFiles call, addDocument call or return is pending
UploadsAtRest ==
    /\ \A d \in Uploaders : app.drops[d].pc = "idle"
    /\ adds = {}
    /\ ret = NoRet

\* C29: once uploads and removals have completed, the vector store holds
\* documents of files of the upload list only: a file that was removed
\* while its ingestion was in flight has no document.
C29_RemovedNotSearchable ==
    UploadsAtRest =>
        \A name \in DOMAIN documents :
            \E j \in 1..Len(app.files) : app.files[j] = name

\* C30: the text POST /api/chat builds its retrieval index over for a
\* document id is the complete text that was extracted from the document
\* when it was uploaded, whatever its length.
C30_ChatIndexesWholeText ==
    backend.chat.indexed =>
        backend.chat.documentText = backend.parsed[backend.chat.documentId]

\* every text of the list is a string that is not blank
AllNonBlank(texts) ==
    \A i \in 1..Len(texts) : IsString(texts[i]) /\ ~Blank(texts[i])

\* C15: an unavailable remote provider (no API key, or a failing remote
\* call) is never surfaced as an error: for non-blank texts
\* generateBatchEmbeddings returns a vector per text and addDocument
\* completes, and a search whose query is not blank completes.
C15_ProviderNeverFatal ==
    /\ (ret.op = "addDocument" /\ AllNonBlank(ret.texts)) =>
          /\ ret.status = "ok"
          /\ Len(ret.batch) = Len(ret.texts)
          /\ \A i \in 1..Len(ret.batch) : ~IsUndefined(ret.batch[i])
    /\ (/\ ret.op = "search"
        /\ ret.stage \in {"ranked", "similarity"}
        /\ \A i \in 1..Len(ret.cands) : ~IsUndefined(ret.cands[i].embedding)) =>
          ret.status = "ok"

\* C16: with no embedding provider configured, an ingestion that has
\* completed has shown no error and has registered the file in the store,
\* every chunk of it with its fallback embedding; and a question has been
\* answered with a non-empty message, which for a question about the
\* documents on an empty index is one of the messages that say nothing
\* relevant is there.
C16_NoProviderDegrades ==
    ~apiKey =>
      /\ app.ingest.pc = "done" =>
            /\ app.error = "null"
            /\ app.ingest.fileId \in DOMAIN documents
            /\ \A c \in DOMAIN chunks :
                 chunks[c].fileId = app.ingest.fileId =>
                   /\ c \in DOMAIN embeddings
                   /\ embeddings[c] = generateSimpleEmbedding(Trim(chunks[c].text.s))
      /\ app.chat.pc = "replied" =>
            /\ app.chat.reply.settled = "resolved"
            /\ app.chat.reply.text # ""
            /\ (Len(arrays[index]) = 0 /\ Shortcut(Lower(app.chat.question)) = "none") =>
                 app.chat.reply.kind \in {"nodocs", "notfound", "notfound-general"}

\* C17: a question about the documents for which retrieval found no chunk
\* is answered only after the generative capability has been invoked.
C17_EmptyRetrievalStillGenerates ==
    (/\ app.chat.pc = "replied"
     /\ Shortcut(Lower(app.chat.question)) = "none"
     /\ app.chat.reply.kind # "error"
     /\ app.chat.found = 0) =>
        app.chat.generation # "none"

\* C18: handleChatMessage always resolves to a non-empty message, also when
\* the search or the generation failed; no step of it changes the store, and
\* once the reply is shown nothing of the question is left: no suspended
\* search, no outcome waiting, the chat as it was before the question.
C18_ChatAlwaysAnswers ==
    /\ [](app.chat.pc = "replied" =>
            /\ app.chat.reply.settled = "resolved"
            /\ app.chat.reply.text # "")
    /\ [](app.chat.pc = "idle" =>
            /\ app.chat = NoChat
            /\ searches = {}
            /\ ret.op # "search")
    /\ [][app.chat' # app.chat => store' = store]_vars

\* a question whose search failed, or whose results could not be listed,
\* has been answered
C18_Witness ==
    /\ app.chat.pc = "replied"
    /\ app.chat.reply.kind = "error"
    /\ app.chat.reply.settled = "resolved"

\* the part of the index a search looked at when it was called: a search
\* that was suspended carries it, any other search has just read the index
CallIndex(r, idx) ==
    IF r.stage \in {"ranked", "similarity"} THEN r.cands ELSE idx

\* C19: a search for an id that has no entry in the index, and a search on
\* an empty index, return an empty sequence and no error; removeDocument
\* with an id that is not registered leaves documents, chunks, embeddings
\* and index as they are.
C19_UnknownIdIsNoError ==
    [][/\ (/\ ret'.op = "search"
           /\ LET searched == CallIndex(ret', arrays[index])
              IN  \/ Len(searched) = 0
                  \/ /\ ret'.fileId # NoFile
                     /\ \A i \in 1..Len(searched) :
                          searched[i].fileId # ret'.fileId) =>
             (ret'.status = "ok" /\ ret'.results = <<>>)
       /\ (ret'.op = "removeDocument" /\ ret'.fileId \notin DOMAIN documents) =>
             (store' = store /\ index' = index)]_vars

\* C20: when a document that was added to a store that did not contain it
\* is removed, the store is as it would be without it: getStats counts the
\* documents and chunks of the other documents only, and a search looks at
\* the index entries of the other documents only (nothing at all if there
\* is no other document).
C20_AddRemoveRestores ==
    [][ret'.op = "removeDocument" =>
         LET id == ret'.fileId
             otherChunks == { c \in DOMAIN chunks : chunks[c].fileId # id }
         IN  /\ Stats(Cur')[1] = Cardinality(DOMAIN documents \ {id})
             /\ Stats(Cur')[2] = Cardinality(otherChunks)
             /\ SearchIndex(Cur', NoFile) =
                  SelectSeq(arrays[index], LAMBDA item : item.fileId # id)
             /\ \A c \in otherChunks : chunks'[c] = chunks[c]]_vars

C27_BatchAgreesWithSingle ==
    ~apiKey =>
      \A t \in SingleTexts :
        (/\ <<"generateEmbedding", t>> \in DOMAIN calls.seen
         /\ <<"generateBatchEmbeddings", <<t>>>> \in DOMAIN calls.seen) =>
           LET single == calls.seen[<<"generateEmbedding", t>>]
               batch == calls.seen[<<"generateBatchEmbeddings", <<t>>>>]
           IN  /\ ~single.threw
               /\ ~batch.threw
               /\ Len(batch.embeddings) = 1
               /\ batch.embeddings[1] = single.vec

IsZeroVector(v) == \A i \in 1..Len(v.comp) : v.comp[i] = 0

\* C22: for two vectors of equal length cosineSimilarity returns a value
\* between -1 and 1: 1 for a vector that is not zero and itself, 0 when one
\* of the vectors is zero.
C22_CosineBounds ==
    (/\ calls.last.fn = "cosineSimilarity"
     /\ calls.last.result.pc = "done"
     /\ ~calls.last.result.threw) =>
        LET vecA == calls.last.args[1]
            vecB == calls.last.args[2]
            r == calls.last.result
        IN  /\ r.sgn # 0 => CmpD(r.abs, OneD) <= 0
            /\ (vecA = vecB /\ ~IsZeroVector(vecA)) =>
                  (r.sgn = 1 /\ CmpD(r.abs, OneD) = 0)
            /\ (IsZeroVector(vecA) \/ IsZeroVector(vecB)) => r.sgn = 0

=============================================================================
